---- MODULE Spec2Model ----
(***************************************************************************)
(* A model of parsex.py: the catalog pipeline of main() (discovery, the    *)
(* append-mode delta, the thread pool of process_single_video units, the   *)
(* as_completed aggregation loop and save_to_csv), the catalog reader      *)
(* get_existing_records, and the filename parser parse_filename_metadata.  *)
(***************************************************************************)
EXTENDS Integers, Sequences, FiniteSets

\* ------------------------------------------------------------------ bounds

\* Runs of main() over the same directory and catalog path.
MaxRuns == 2
\* Size of the thread pool (args.num).
NumWorkers == 2
\* Dot-separated tokens of a filename handed to the parser.
MaxTokens == 6

\* ------------------------------------------------------------ the file tree

File(d, s, e) == [dir |-> d, stem |-> s, ext |-> e]

\* Path.name: the last path component, suffix included.
PathName(f) == IF f.ext = "" THEN f.stem ELSE f.stem \o "." \o f.ext

\* Path.stem: the last path component without its suffix.
PathStem(f) == f.stem

\* The files a tree may hold: two files sharing a base name (in different
\* directories, with different extensions), and two other files.
TreeFiles == { File("d1", "a", "mp4"), File("d2", "a", "mkv") }
PoolFiles == TreeFiles \cup { File("d1", "b", "mp4"), File("d1", "e", "mp4") }

\* A file given directly as the input path: any file, here one without suffix.
LoneFiles == { File("d1", "c", ""), File("d1", "b", "mp4") }

AllFiles == PoolFiles \cup LoneFiles

\* The input path: a directory holding some of `tree`, a single file, or a
\* path that does not exist.
Roots(tree) ==
    { [kind |-> "dir", files |-> S] : S \in SUBSET tree }
      \cup { [kind |-> "file", files |-> {f}] : f \in LoneFiles }
      \cup { [kind |-> "missing", files |-> {}] }

\* get_video_files: the files of the five extensions under a directory, the
\* path itself when it is a file; sys.exit(1) when it does not exist, which
\* the caller sees as root.kind = "missing".
get_video_files(r) == r.files

\* ------------------------------------------------------------ the csv file

\* HEADERS, written by DictWriter.writeheader as one row.
HEADERS == [kind |-> "header", name |-> "name", path |-> "path"]

\* str(path_video), the path column.
PathStr(f) == f.dir \o "/" \o PathName(f)

\* A data row: of the fifteen columns the model keeps name and path.
DataRow(n, p) == [kind |-> "data", name |-> n, path |-> p]

NoFile == [exists |-> FALSE, rows |-> << >>]
FileOf(rows) == [exists |-> TRUE, rows |-> rows]

\* Catalogs a run may find at its start: none, a zero-length file, and
\* files written earlier (the last one edited by hand: a row without name).
PriorCatalogs ==
    { NoFile,
      FileOf(<< >>),
      FileOf(<< HEADERS, DataRow("a", "d1/a.mp4") >>),
      FileOf(<< HEADERS, DataRow("", "old/x.mp4"), DataRow("z", "old/z.mp4"),
                DataRow("z", "old2/z.mkv") >>) }

Take(s, k) == SubSeq(s, 1, k)

\* The csv a run may have to read is no longer than every row of every run.
MaxPriorRows == 4 + MaxRuns * Cardinality(AllFiles)

\* csv.DictReader over the first k rows after the header line: the first
\* row of the file is the field names whatever it holds; each later row is a
\* dict keyed by them.  A row gives row.get('name') only when the field
\* names are HEADERS.
RECURSIVE ReadRows(_, _)
ReadRows(rows, acc) ==
    IF rows = << >> THEN acc
    ELSE LET row == Head(rows)
             nxt == IF row.name # ""
                    THEN [n \in DOMAIN acc \cup {row.name} |->
                             IF n = row.name THEN row ELSE acc[n]]
                    ELSE acc
         IN ReadRows(Tail(rows), nxt)

EmptyMap == [n \in {} |-> HEADERS]

\* The number of data rows DictReader can yield from the file.
Readable(file) ==
    IF file.exists /\ Len(file.rows) > 0 THEN Len(file.rows) - 1 ELSE 0

\* The reader with the accumulated rows dropped when the read raises.
get_existing_records_drops(file, fail) ==
    IF ~file.exists \/ Len(file.rows) = 0 \/ fail <= Readable(file) THEN EmptyMap
    ELSE IF Head(file.rows) # HEADERS THEN EmptyMap
    ELSE ReadRows(Tail(file.rows), EmptyMap)

\* get_existing_records: `fail` is the number of rows read before the read
\* raises, or Readable(file) + 1 when it does not raise.  existing_data is
\* filled inside the try block and returned after the except clause.
get_existing_records(file, fail) ==
    IF ~file.exists THEN EmptyMap
    ELSE IF Len(file.rows) = 0 THEN EmptyMap
    ELSE IF Head(file.rows) # HEADERS THEN EmptyMap
    ELSE LET n == IF fail > Readable(file) THEN Readable(file) ELSE fail
         IN ReadRows(Take(Tail(file.rows), n), EmptyMap)

\* The writer with the header written on every call.
save_to_csv_header_always(data_list, file, mode, wr) ==
    IF data_list = << >> THEN file
    ELSE LET lines == << HEADERS >> \o data_list
             kept == IF mode = "w" THEN << >> ELSE file.rows
         IN IF wr < 0 THEN file
            ELSE FileOf(kept \o Take(lines, IF wr > Len(lines) THEN Len(lines) ELSE wr))

\* save_to_csv: `wr` is -1 when open() raises, else the number of lines
\* written before a write raises IOError (all of them when none does).
save_to_csv(data_list, file, mode, wr) ==
    IF data_list = << >> THEN file
    ELSE LET write_header ==
                 (mode = "w") \/ ~file.exists \/ (Len(file.rows) = 0)
             lines == (IF write_header THEN << HEADERS >> ELSE << >>)
                         \o data_list
             kept == IF mode = "w" THEN << >> ELSE file.rows
         IN IF wr < 0 THEN file
            ELSE FileOf(kept \o Take(lines, IF wr > Len(lines) THEN Len(lines) ELSE wr))

\* The mode with the existence test left out.
SaveMode_overwrites(argmode, file) == "w"

\* The mode main() hands to save_to_csv.
SaveMode(argmode, file) == IF argmode = "a" /\ file.exists THEN "a" ELSE "w"

\* The append-mode work set of main(): the files whose Path.name is not a
\* key of the loaded catalog.
Delta(videos, existing) ==
    { v \in videos : PathName(v) \notin DOMAIN existing }

\* ------------------------------------------------------------ one unit

Outcomes == { "ok", "stat_error", "probe_error" }

\* The unit with the test of the probe's result left out.
process_single_video_keeps_failed_probe(f, outcome) ==
    IF outcome = "stat_error" THEN << >>
    ELSE << DataRow(PathStem(f), PathStr(f)) >>

\* process_single_video: << >> for None, << info >> for the record.
process_single_video(f, outcome) ==
    IF outcome = "stat_error" THEN << >>
    ELSE IF outcome = "probe_error" THEN << >>
    ELSE << DataRow(PathStem(f), PathStr(f)) >>

\* ------------------------------------------------------------ the parser

\* Strings the parser works on are sequences of one-character strings.
Digits == { "0", "1", "2", "3", "4", "5", "6", "7", "8", "9" }
Dot == "."
Unknown == << "U", "n", "k", "n", "o", "w", "n" >>

Min(a, b) == IF a < b THEN a ELSE b

\* s[a:b] of Python, 0-based and clamped.
Slice(s, a, b) == SubSeq(s, a + 1, Min(b, Len(s)))

\* str.upper on the letters the filenames here are made of.
UpperChar(c) ==
    CASE c = "a" -> "A" [] c = "d" -> "D" [] c = "l" -> "L"
      [] c = "n" -> "N" [] c = "x" -> "X" [] OTHER -> c
Upper(t) == [i \in DOMAIN t |-> UpperChar(t[i])]

\* str.split('.').
RECURSIVE Split(_)
Split(s) ==
    IF \A i \in DOMAIN s : s[i] # Dot THEN << s >>
    ELSE LET k == CHOOSE i \in DOMAIN s :
                      s[i] = Dot /\ \A j \in 1 .. (i - 1) : s[j] # Dot
         IN << SubSeq(s, 1, k - 1) >> \o Split(SubSeq(s, k + 1, Len(s)))

\* sep.join(parts).
RECURSIVE Join(_, _)
Join(parts, sep) ==
    IF parts = << >> THEN << >>
    ELSE IF Len(parts) = 1 THEN parts[1]
    ELSE parts[1] \o << sep >> \o Join(Tail(parts), sep)

\* str.replace('.', ' ').
DotsToSpaces(s) == [i \in DOMAIN s |-> IF s[i] = Dot THEN " " ELSE s[i]]

\* list.index(x), 0-based; the caller has checked x in list.
IndexOf(list, x) ==
    (CHOOSE i \in DOMAIN list : list[i] = x /\ \A j \in 1 .. (i - 1) : list[j] # x) - 1

DigitsAt(s, i, n) ==
    i + n - 1 <= Len(s) /\ \A j \in i .. (i + n - 1) : s[j] \in Digits
DotAt(s, i) == i <= Len(s) /\ s[i] = Dot

\* (?:(?:\d{2}\.){2}\d{2}|\d{4})\. tried at position i: the length of the
\* date the alternation settles on with the dot after it, 0 when neither
\* alternative is followed by a dot.
DateLenAt(s, i) ==
    IF /\ DigitsAt(s, i, 2) /\ DotAt(s, i + 2) /\ DigitsAt(s, i + 3, 2)
       /\ DotAt(s, i + 5) /\ DigitsAt(s, i + 6, 2) /\ DotAt(s, i + 8)
    THEN 8
    ELSE IF DigitsAt(s, i, 4) /\ DotAt(s, i + 4) THEN 4
    ELSE 0

\* The search with the pattern's anchoring dot after the date left out.
ReSearch_no_dot_after(s) ==
    LET dated(i) == IF /\ DigitsAt(s, i, 2) /\ DotAt(s, i + 2) /\ DigitsAt(s, i + 3, 2)
                       /\ DotAt(s, i + 5) /\ DigitsAt(s, i + 6, 2)
                    THEN 8 ELSE IF DigitsAt(s, i, 4) THEN 4 ELSE 0
        ends == { k \in 1 .. Len(s) : DotAt(s, k + 1) /\ dated(k + 2) > 0 }
    IN IF ends = {} THEN << >>
       ELSE LET k == CHOOSE e \in ends : \A o \in ends : e <= o
            IN << SubSeq(s, 1, k),
                  IF k + 2 + dated(k + 2) + 1 > Len(s) THEN << >>
                  ELSE SubSeq(s, k + 2 + dated(k + 2) + 1, Len(s)) >>

\* re.search(r'^(.+?)\.(date)\.(.*)$', filename): << >> when there is no
\* match, else << group(1), group(2) >>.  The lazy group takes the
\* shortest prefix of one character or more after which the rest matches.
ReSearch(s) ==
    LET ends == { k \in 1 .. Len(s) : DotAt(s, k + 1) /\ DateLenAt(s, k + 2) > 0 }
    IN IF ends = {} THEN << >>
       ELSE LET k == CHOOSE e \in ends : \A o \in ends : e <= o
                n == DateLenAt(s, k + 2)
            IN << SubSeq(s, 1, k), SubSeq(s, k + 2 + n + 1, Len(s)) >>

XXX == << "X", "X", "X" >>
And == << "A", "n", "d" >>

\* The cut of matches before the first token that is XXX in upper case.
CutAtXXX(matches) ==
    LET upper_matches == [i \in DOMAIN matches |-> Upper(matches[i])]
    IN IF \E i \in DOMAIN matches : upper_matches[i] = XXX
       THEN Slice(matches, 0, IndexOf(upper_matches, XXX))
       ELSE matches

\* The chain with the threshold on and_idx off by one.
CastOf_threshold(matches) ==
    IF Len(matches) <= 3 THEN Join(matches, " ")
    ELSE IF \A i \in DOMAIN matches : matches[i] # And
    THEN Join(Slice(matches, 0, 2), " ")
    ELSE LET and_idx == IndexOf(matches, And)
         IN IF and_idx <= 3
            THEN Join(Slice(matches, 0, and_idx), " ") \o << ",", " " >>
                   \o Join(Slice(Slice(matches, and_idx + 1, Len(matches)), 0, 2), " ")
            ELSE Join(Slice(matches, 0, 2), " ")

\* The cast the if/elif/else chain builds from matches.
CastOf(matches) ==
    IF Len(matches) <= 3 THEN Join(matches, " ")
    ELSE IF \A i \in DOMAIN matches : matches[i] # And
    THEN Join(Slice(matches, 0, 2), " ")
    ELSE LET and_idx == IndexOf(matches, And)
         IN IF and_idx < 3
            THEN LET name_before == Join(Slice(matches, 0, and_idx), " ")
                     after_and_parts == Slice(matches, and_idx + 1, Len(matches))
                     name_after ==
                         IF Len(after_and_parts) <= 2
                         THEN Join(after_and_parts, " ")
                         ELSE Join(Slice(after_and_parts, 0, 2), " ")
                 IN name_before \o << ",", " " >> \o name_after
            ELSE Join(Slice(matches, 0, 2), " ")

parse_filename_metadata(filename) ==
    LET match == ReSearch(filename)
    IN IF match = << >>
       THEN [ collection |-> IF \E i \in DOMAIN filename : filename[i] = Dot
                             THEN Split(filename)[1] ELSE Unknown,
              cast |-> Unknown ]
       ELSE [ collection |-> DotsToSpaces(match[1]),
              cast |-> CastOf(CutAtXXX(Split(match[2]))) ]

\* The tokens the filenames are put together from: a name, the two words the
\* parser looks for, a year, a two-digit group, a five-digit group and the
\* empty token (two dots in a row, a leading or a trailing dot).
Tokens ==
    { << "A", "l" >>, And, << "x", "X", "x" >>, << "2", "0", "2", "4" >>,
      << "2", "5" >>, << "2", "0", "2", "4", "5" >>, << >> }

\* ------------------------------------------------------------ the state

VARIABLES
    root,              \* args.input: what the input path is
    csv,               \* the file at args.csv
    run,               \* runs of main() started so far
    pc,                \* where main() is: idle, pool, done, aborted
    mode,              \* args.mode of the current run
    all_videos,        \* main: all_videos
    existing_records,  \* main: existing_records
    files_to_process,  \* main: files_to_process
    future,            \* each submitted unit: queued, running or finished
    result,            \* future.result() of the finished units
    yielded,           \* the futures as_completed has handed to the loop
    info_list,         \* main: info_list
    pbar,              \* tqdm's count
    hist,              \* what the properties need to remember
    tokens,            \* the dot-separated tokens of the filename
    filename,          \* the argument of parse_filename_metadata
    parsed             \* << >>, or << its return value >>

pvars == << tokens, filename, parsed >>

pipe == << root, csv, run, pc, mode, all_videos, existing_records,
           files_to_process, future, result, yielded, info_list, pbar, hist >>

vars == << pipe, pvars >>

NoHist ==
    [ csv0 |-> NoFile,        \* the catalog when the current run started
      loaded |-> FALSE,       \* the current run called get_existing_records
      fail |-> 0,             \* the rows it read before raising
      ok |-> {},              \* the finished units whose stat and probe succeeded
      bad |-> {},             \* the finished units whose stat or probe failed
      saves |-> 0,            \* calls of save_to_csv in the current run
      clean |-> TRUE,         \* no read or write of the catalog has failed
      full |-> FALSE,         \* the current run's save wrote every line
      fresh |-> FALSE,        \* the first run found no catalog or an empty one
      prev |-> [mode |-> "none", failed |-> {}, allok |-> FALSE] ]

InitWith(roots) ==
    /\ tokens = << >>
    /\ filename = << >>
    /\ parsed = << >>
    /\ root \in roots
    /\ csv \in PriorCatalogs
    /\ run = 0
    /\ pc = "idle"
    /\ mode = "a"
    /\ all_videos = {}
    /\ existing_records = EmptyMap
    /\ files_to_process = {}
    /\ future = [f \in {} |-> "queued"]
    /\ result = [f \in {} |-> << >>]
    /\ yielded = {}
    /\ info_list = << >>
    /\ pbar = 0
    /\ hist = [NoHist EXCEPT !.csv0 = csv,
                             !.fresh = (~csv.exists \/ csv.rows = << >>)]

Running == { f \in DOMAIN future : future[f] = "running" }
Finished == { f \in DOMAIN future : future[f] = "finished" }

Init == InitWith(Roots(TreeFiles))

\* main() from its start to the end of the executor.submit comprehension: it
\* exits when the input path is missing, returns when append mode leaves
\* nothing to do, and otherwise has queued one unit per file of the work set.
\* The units start in any order: the list of files comes from rglob over a
\* set of patterns.
StartRun(m, fail) ==
    /\ pc \in {"idle", "done", "aborted"}
    /\ run < MaxRuns
    /\ fail <= Readable(csv) + 1
    /\ run' = run + 1
    /\ mode' = m
    /\ LET videos == get_video_files(root)
           existing == IF m = "a" /\ root.kind # "missing"
                       THEN get_existing_records(csv, fail) ELSE EmptyMap
           todo == IF m = "a" THEN Delta(videos, existing) ELSE videos
       IN /\ all_videos' = videos
          /\ existing_records' = existing
          /\ files_to_process' = IF root.kind = "missing" THEN {} ELSE todo
          /\ pc' = IF root.kind = "missing" THEN "aborted"
                   ELSE IF m = "a" /\ todo = {} THEN "done"
                   ELSE "pool"
          /\ future' = IF root.kind = "missing" \/ (m = "a" /\ todo = {})
                       THEN [f \in {} |-> "queued"]
                       ELSE [f \in todo |-> "queued"]
          /\ hist' = [hist EXCEPT
                 !.csv0 = csv,
                 !.loaded = (m = "a" /\ root.kind # "missing"),
                 !.fail = IF m = "a" /\ root.kind # "missing" THEN fail ELSE 0,
                 !.ok = {},
                 !.bad = {},
                 !.saves = 0,
                 !.clean = hist.clean /\ (m = "a" => fail > Readable(csv)),
                 !.full = FALSE,
                 !.prev = [mode |-> IF run = 0 THEN "none" ELSE mode,
                           failed |-> hist.bad,
                           allok |-> run > 0 /\ hist.ok = files_to_process]]
    /\ result' = [f \in {} |-> << >>]
    /\ yielded' = {}
    /\ info_list' = << >>
    /\ pbar' = 0
    /\ UNCHANGED pvars
    /\ UNCHANGED << root, csv >>

\* A pool thread takes a queued unit.
WorkerStart(f) ==
    /\ pc = "pool"
    /\ f \in DOMAIN future
    /\ future[f] = "queued"
    /\ Cardinality(Running) < NumWorkers
    /\ future' = [future EXCEPT ![f] = "running"]
    /\ UNCHANGED pvars
    /\ UNCHANGED << root, csv, run, pc, mode, all_videos, existing_records,
                    files_to_process, result, yielded, info_list, pbar, hist >>

\* The unit returns: process_single_video catches every Exception itself.
WorkerFinish(f, outcome) ==
    /\ pc = "pool"
    /\ f \in Running
    /\ future' = [future EXCEPT ![f] = "finished"]
    /\ result' = [g \in DOMAIN result \cup {f} |->
                     IF g = f THEN process_single_video(f, outcome) ELSE result[g]]
    /\ hist' = IF outcome = "ok" THEN [hist EXCEPT !.ok = hist.ok \cup {f}]
                                 ELSE [hist EXCEPT !.bad = hist.bad \cup {f}]
    /\ UNCHANGED pvars
    /\ UNCHANGED << root, csv, run, pc, mode, all_videos, existing_records,
                    files_to_process, yielded, info_list, pbar >>

\* The records the loop body adds to info_list for one future.
Aggregate(list, res) == IF res # << >> THEN list \o res ELSE list

\* One iteration of the as_completed loop.
Collect(f) ==
    /\ pc = "pool"
    /\ f \in Finished \ yielded
    /\ yielded' = yielded \cup {f}
    /\ info_list' = Aggregate(info_list, result[f])
    /\ pbar' = pbar + 1
    /\ UNCHANGED pvars
    /\ UNCHANGED << root, csv, run, pc, mode, all_videos, existing_records,
                    files_to_process, future, result, hist >>

\* The loop left after its first iteration.
Drained_after_first == yielded # {} \/ DOMAIN future = {}

\* The loop has ended: as_completed yields every future once.
Drained == yielded = DOMAIN future

\* The end of main(): the executor is left and save_to_csv is called.
Save(wr) ==
    /\ pc = "pool"
    /\ Drained
    /\ LET m == SaveMode(mode, csv)
           lines == (IF m = "w" \/ ~csv.exists \/ csv.rows = << >>
                     THEN << HEADERS >> ELSE << >>) \o info_list
       IN /\ info_list = << >> => wr = 0
          /\ wr <= Len(lines)
          /\ csv' = save_to_csv(info_list, csv, m, wr)
          /\ hist' = [hist EXCEPT
                 !.saves = hist.saves + 1,
                 !.clean = hist.clean /\ wr = Len(lines),
                 !.full = (wr = Len(lines))]
    /\ pc' = "done"
    /\ UNCHANGED pvars
    /\ UNCHANGED << root, run, mode, all_videos, existing_records,
                    files_to_process, future, result, yielded, info_list, pbar >>

Modes == { "a", "w" }

\* The pool, the aggregation loop and the writer of one run.
RunSteps ==
    \/ \E f \in AllFiles : WorkerStart(f)
    \/ \E f \in AllFiles, o \in Outcomes : WorkerFinish(f, o)
    \/ \E f \in AllFiles : Collect(f)
    \/ \E wr \in -1 .. (Cardinality(AllFiles) + 1) : Save(wr)

\* Runs of main() one after the other over small trees.
Next ==
    \/ \E m \in Modes, fail \in 0 .. MaxPriorRows : StartRun(m, fail)
    \/ RunSteps

Spec == Init /\ [][Next]_vars

\* One run of main() over the larger trees.
PoolInit == InitWith(Roots(PoolFiles))

FirstRun(m, fail) == run = 0 /\ StartRun(m, fail)

PoolNext ==
    \/ \E m \in Modes, fail \in 0 .. MaxPriorRows : FirstRun(m, fail)
    \/ RunSteps

PoolSpec == PoolInit /\ [][PoolNext]_vars

\* The parser alone, over every filename of up to MaxTokens tokens.
ParseInit == InitWith({ [kind |-> "missing", files |-> {}] }) /\ csv = NoFile

AddToken(t) ==
    /\ parsed = << >>
    /\ Len(tokens) < MaxTokens
    /\ tokens' = Append(tokens, t)
    /\ filename' = Join(tokens', Dot)
    /\ UNCHANGED << parsed, pipe >>

Parse ==
    /\ parsed = << >>
    /\ tokens # << >>
    /\ parsed' = << parse_filename_metadata(filename) >>
    /\ UNCHANGED << tokens, filename, pipe >>

ParseNext ==
    \/ \E t \in Tokens : AddToken(t)
    \/ Parse

ParseSpec == ParseInit /\ [][ParseNext]_vars

\* ------------------------------------------------------------ properties

IsPrefix(s, t) == Len(s) <= Len(t) /\ SubSeq(t, 1, Len(s)) = s

DataRowsOf(file) == { i \in DOMAIN file.rows : file.rows[i].kind = "data" }
HeaderRowsOf(file) == { i \in DOMAIN file.rows : file.rows[i] = HEADERS }
NamesIn(file) == { file.rows[i].name : i \in DataRowsOf(file) }

\* C1: a second append-mode run over the unchanged directory, after an
\* append-mode run in which every unit succeeded and the catalog was read
\* and written without error, dispatches no unit and adds no row.
C1_AppendIdempotent ==
    (/\ run >= 2 /\ mode = "a" /\ hist.prev.mode = "a"
     /\ hist.prev.allok /\ hist.clean)
        => (files_to_process = {} /\ csv = hist.csv0)

\* C2: after a run no row of the catalog has the name of a file whose unit
\* failed in that run, and the next append-mode run dispatches that file.
C2_FailedNotCataloged ==
    /\ pc = "done" =>
          \A f \in hist.bad : PathStem(f) \notin NamesIn(csv)
    /\ (run >= 2 /\ mode = "a") => hist.prev.failed \subseteq files_to_process

\* C3: after an overwrite-mode run whose units all succeeded and whose write
\* succeeded, the catalog holds exactly one row per discovered name and no
\* two rows share a name.
C3_OverwriteOneRowPerName ==
    (/\ pc = "done" /\ mode = "w" /\ hist.saves = 1
     /\ hist.ok = files_to_process /\ hist.full)
        => /\ NamesIn(csv) = { PathStem(f) : f \in all_videos }
           /\ \A i, j \in DataRowsOf(csv) :
                  csv.rows[i].name = csv.rows[j].name => i = j

\* C4: a save of a non-empty record list to a missing or zero-length file
\* writes the header once, before the rows; an append to a non-empty file
\* writes no header; so a catalog that started missing or empty, once it
\* holds anything, holds exactly one header row, its first.
C4_HeaderRule ==
    /\ (pc = "done" /\ hist.saves = 1 /\ hist.full /\ info_list # << >>) =>
          /\ (~hist.csv0.exists \/ hist.csv0.rows = << >>)
                => csv.rows = << HEADERS >> \o info_list
          /\ (mode = "a" /\ hist.csv0.exists /\ hist.csv0.rows # << >>)
                => csv.rows = hist.csv0.rows \o info_list
    /\ (hist.fresh /\ csv.rows # << >>) => HeaderRowsOf(csv) = {1}

C4_Witness ==
    /\ hist.fresh /\ run = 2 /\ pc = "done" /\ mode = "a" /\ hist.full
    /\ hist.csv0.rows # << >> /\ Len(csv.rows) > Len(hist.csv0.rows)

\* C5: when a run ends, every unit of the work set has finished whatever
\* the others did, info_list holds exactly one record for each unit that
\* succeeded and none for a failed one, and the failures number
\* |work set| - |info_list|; while the pool is open it can always step.
C5_FailureIsolation ==
    /\ pc = "pool" => ENABLED RunSteps
    /\ (pc = "done" /\ hist.saves = 1) =>
          /\ hist.ok \cup hist.bad = files_to_process
          /\ Finished = files_to_process
          /\ pbar = Cardinality(files_to_process)
          /\ { info_list[i].path : i \in DOMAIN info_list }
                = { PathStr(f) : f \in hist.ok }
          /\ Len(info_list) = Cardinality(hist.ok)
          /\ Cardinality(hist.bad)
                = Cardinality(files_to_process) - Len(info_list)

C5_Witness ==
    /\ pc = "done" /\ hist.saves = 1
    /\ Cardinality(hist.bad) >= 2 /\ Cardinality(hist.ok) >= 2

\* C8: save_to_csv is called at most once in a run, and the catalog file
\* differs from what the run found only after every submitted unit has
\* finished and has been handed to the aggregation loop.
C8_SingleWriterAfterDrain ==
    /\ hist.saves <= 1
    /\ (hist.saves = 1 \/ csv # hist.csv0) =>
          /\ pc = "done"
          /\ DOMAIN future = files_to_process
          /\ Finished = files_to_process
          /\ yielded = files_to_process
          /\ pbar = Cardinality(files_to_process)

C8_Witness ==
    /\ csv # hist.csv0 /\ Cardinality(files_to_process) >= 3
    /\ hist.bad # {}

\* C9: in an append-mode run over a non-empty catalog the rows found at the
\* start stay, unchanged and in order, the prefix of the file, and a
\* complete save puts exactly the new records after them.
C9_AppendPreservesRows ==
    (mode = "a" /\ run >= 1 /\ hist.csv0.exists /\ hist.csv0.rows # << >>) =>
        /\ csv.exists
        /\ IsPrefix(hist.csv0.rows, csv.rows)
        /\ (pc = "done" /\ hist.saves = 1 /\ hist.full)
              => csv.rows = hist.csv0.rows \o info_list

C9_Witness ==
    /\ mode = "a" /\ pc = "done" /\ hist.saves = 1 /\ hist.full
    /\ Len(hist.csv0.rows) >= 2 /\ Len(csv.rows) > Len(hist.csv0.rows)

\* The data rows of the catalog the run found that the reader got through.
RowsRead ==
    LET n == IF hist.fail > Readable(hist.csv0)
             THEN Readable(hist.csv0) ELSE hist.fail
    IN { i \in 2 .. (n + 1) : hist.csv0.rows[i].name # "" }

ReadFailed == hist.fail <= Readable(hist.csv0)

\* C10 as stated: the load gives the empty mapping when the file is missing
\* and whenever the read fails, and on success an entry for every name of a
\* row that has one.
C10_LoadAllOrNothing ==
    hist.loaded =>
        /\ ~hist.csv0.exists => existing_records = EmptyMap
        /\ ReadFailed => existing_records = EmptyMap
        /\ ~ReadFailed =>
              DOMAIN existing_records = { hist.csv0.rows[i].name : i \in RowsRead }

\* C10 as amended: the load gives the empty mapping when the file is
\* missing; otherwise, whether or not the read fails, it gives the entries of
\* the rows read up to there: one per name, the last row of that name.
C10_LoadKeepsRowsRead ==
    hist.loaded =>
        /\ ~hist.csv0.exists => existing_records = EmptyMap
        /\ DOMAIN existing_records = { hist.csv0.rows[i].name : i \in RowsRead }
        /\ \A i \in RowsRead :
              (\A j \in RowsRead : j > i => hist.csv0.rows[j].name # hist.csv0.rows[i].name)
                 => existing_records[hist.csv0.rows[i].name] = hist.csv0.rows[i]

C10_Witness ==
    /\ hist.loaded /\ ReadFailed /\ existing_records # EmptyMap
    /\ Cardinality(RowsRead) < Readable(hist.csv0)

\* The date tokens of a filename, told from its tokens and not from its
\* characters: a four-digit token, or three two-digit tokens in a row, with a
\* token after it and at least one character before the dot in front of it.
AllDigits(t, n) == Len(t) = n /\ \A i \in DOMAIN t : t[i] \in Digits

DateTokensAt(toks, j) ==
    IF j < Len(toks) /\ AllDigits(toks[j], 4) THEN 1
    ELSE IF /\ j + 2 < Len(toks) /\ AllDigits(toks[j], 2)
            /\ AllDigits(toks[j + 1], 2) /\ AllDigits(toks[j + 2], 2) THEN 3
    ELSE 0

DateIndexes(toks) ==
    { j \in 2 .. Len(toks) :
        DateTokensAt(toks, j) > 0 /\ (j > 2 \/ toks[1] # << >>) }

FirstDate(toks) == CHOOSE j \in DateIndexes(toks) : \A k \in DateIndexes(toks) : j <= k

Spaced(toks) ==
    IF toks = << >> THEN << >>
    ELSE [i \in 1 .. (Len(toks[1]) + 1) |->
             IF i <= Len(toks[1]) THEN toks[1][i] ELSE " "]

RECURSIVE Words(_)
Words(toks) ==
    IF Len(toks) <= 1 THEN (IF toks = << >> THEN << >> ELSE toks[1])
    ELSE Spaced(toks) \o Words(Tail(toks))

\* C6: a filename without a date token parses to the segment before its
\* first dot, or Unknown when it has no dot, and to the cast Unknown.
C6_NoDateDefaults ==
    (parsed # << >> /\ DateIndexes(tokens) = {}) =>
        /\ parsed[1].cast = Unknown
        /\ parsed[1].collection = IF Len(tokens) >= 2 THEN tokens[1] ELSE Unknown

C6_Witness ==
    /\ parsed # << >> /\ DateIndexes(tokens) = {}
    /\ \E j \in DOMAIN tokens : AllDigits(tokens[j], 4)
    /\ Len(tokens) >= 3 /\ tokens[1] # << >>

\* The tokens after the first date token, up to the first XXX in any case.
AfterDate(toks) ==
    LET j == FirstDate(toks)
        rest == SubSeq(toks, j + DateTokensAt(toks, j), Len(toks))
        cuts == { i \in DOMAIN rest : Upper(rest[i]) = XXX }
    IN IF cuts = {} THEN rest
       ELSE SubSeq(rest, 1, (CHOOSE i \in cuts : \A k \in cuts : i <= k) - 1)

FirstTwo(t) == IF Len(t) <= 2 THEN t ELSE SubSeq(t, 1, 2)

\* C7: with a date token found, the cast is all of T when T has at most
\* three tokens, its first two when no token is And or the first And is at
\* index 3 or more, and else the tokens before And, a comma, and at most two
\* tokens after it; the collection is the prefix with its dots as spaces.
C7_CastAssembly ==
    (parsed # << >> /\ DateIndexes(tokens) # {}) =>
        LET T == AfterDate(tokens)
            ands == { i \in DOMAIN T : T[i] = And }
            idx == (CHOOSE i \in ands : \A k \in ands : i <= k) - 1
        IN /\ parsed[1].collection = Words(SubSeq(tokens, 1, FirstDate(tokens) - 1))
           /\ parsed[1].cast =
                 IF Len(T) <= 3 THEN Words(T)
                 ELSE IF ands = {} THEN Words(FirstTwo(T))
                 ELSE IF idx >= 3 THEN Words(FirstTwo(T))
                 ELSE Words(SubSeq(T, 1, idx)) \o << ",", " " >>
                        \o Words(FirstTwo(SubSeq(T, idx + 2, Len(T))))

\* A date token, more than three tokens after it, And among the first three.
C7_Witness ==
    /\ parsed # << >> /\ DateIndexes(tokens) # {}
    /\ Len(AfterDate(tokens)) = 4
    /\ AfterDate(tokens)[2] = And
    /\ \E i \in DOMAIN parsed[1].cast : parsed[1].cast[i] = ","

====
